---- MODULE Spec2Model ----
(***************************************************************************)
(* Quantum Prisoner's Dilemma (EWL scheme): the dashboard (src/app.py) and *)
(* the batch script (src/quantum_sim.py).                                  *)
(*                                                                         *)
(* Numbers.  Amplitudes are exact Gaussian integers <<re, im>>; an         *)
(* operator is a matrix of Gaussian integers together with the square of   *)
(* the real factor it is divided by (nrm), so data / sqrt(nrm) is the      *)
(* unitary.  An entanglement parameter gamma is given by its half angle:   *)
(* gamma = <<c, s>> stands for the angle with cos(gamma/2) : sin(gamma/2)  *)
(* = c : s, i.e. gamma = 2*atan2(s, c).  <<1, 0>> is gamma = 0 and         *)
(* <<1, 1>> is gamma = pi/2.  Floating-point rounding is not modelled.     *)
(* An expected payoff is the exact fraction <<num, den>> in lowest terms.  *)
(***************************************************************************)
EXTENDS Integers, Sequences, FiniteSets, TLC

\* ---------------------------------------------------------------- bounds
\* Largest c in a half-angle pair <<c, s>> of the gamma values explored.
MaxAmp == 2
\* Largest shot count the dashboard's number input is given (smallest: -1).
MaxShots == 2
\* The script runs of one dashboard session that are explored.
MaxReruns == 4

\* ------------------------------------------------------- complex numbers
CAdd(a, b) == <<a[1] + b[1], a[2] + b[2]>>
CMul(a, b) == <<a[1] * b[1] - a[2] * b[2], a[1] * b[2] + a[2] * b[1]>>
CConj(a) == <<a[1], -a[2]>>
CAbs2(a) == a[1] * a[1] + a[2] * a[2]
CZero == <<0, 0>>
COne == <<1, 0>>
CImag == <<0, 1>>
CNegImag == <<0, -1>>

\* ------------------------------------------------ Python values, helpers
\* Optional values: None, or a present value.
None == <<>>
Some(x) == <<x>>

RECURSIVE SumOver(_, _)
SumOver(f, S) ==
    IF S = {} THEN 0
    ELSE LET x == CHOOSE y \in S : TRUE IN f[x] + SumOver(f, S \ {x})

\* sum(counts.values())
Total(counts) == SumOver(counts, DOMAIN counts)

RECURSIVE Gcd(_, _)
Gcd(a, b) == IF b = 0 THEN a ELSE Gcd(b, a % b)
Abs(a) == IF a < 0 THEN -a ELSE a

\* a / b for integers a, b with b # 0: the exact quotient in lowest terms.
TrueDiv(a, b) ==
    LET g == Gcd(Abs(a), Abs(b))
        sgn == IF b < 0 THEN -1 ELSE 1
    IN <<(sgn * a) \div g, Abs(b) \div g>>

\* The four 2-bit outcome strings, as sequences of characters.
Bits == {"0", "1"}
Outcomes == {<<b1, b0>> : b1 \in Bits, b0 \in Bits}
BitChar(b) == IF b = 0 THEN "0" ELSE "1"

\* ------------------------------------------------------------- operators
\* app.py:16-18, quantum_sim.py:15-22 (the two modules define the same).
I == <<<<COne, CZero>>, <<CZero, COne>>>>
D == <<<<CZero, CImag>>, <<CImag, CZero>>>>
Q == <<<<CImag, CZero>>, <<CZero, CNegImag>>>>

\* qiskit.quantum_info.Operator(matrix): data / sqrt(nrm).
Operator(data, nrm) == [data |-> data, nrm |-> nrm]

\* Mutant of Adjoint: the transpose, without the conjugation.
Adjoint_transpose(op) ==
    LET n == Len(op.data)
    IN Operator([r \in 1..n |-> [c \in 1..n |-> op.data[c][r]]], op.nrm)

\* Operator.adjoint(): the conjugate transpose.
Adjoint(op) ==
    LET n == Len(op.data)
    IN Operator([r \in 1..n |-> [c \in 1..n |-> CConj(op.data[c][r])]], op.nrm)

\* np.kron of two 2x2 matrices.
Kron(A, B) ==
    [r \in 1..4 |-> [c \in 1..4 |->
        CMul(A[((r - 1) \div 2) + 1][((c - 1) \div 2) + 1],
             B[((r - 1) % 2) + 1][((c - 1) % 2) + 1])]]

\* expm(1j * gamma * M / 2) for a matrix M with M*M = identity:
\* cos(gamma/2) * identity + i * sin(gamma/2) * M, here times
\* sqrt(c^2 + s^2) for gamma = <<c, s>>.
Expm(gamma, M) ==
    [r \in 1..4 |-> [c \in 1..4 |->
        CAdd((IF r = c THEN <<gamma[1], 0>> ELSE CZero),
             CMul(<<0, gamma[2]>>, M[r][c]))]]

get_J_gate(gamma) ==
    LET X == <<<<CZero, COne>>, <<COne, CZero>>>>
        XX == Kron(X, X)
        J_matrix == Expm(gamma, XX)
    IN Operator(J_matrix, gamma[1] * gamma[1] + gamma[2] * gamma[2])

\* ------------------------------------------------------- strategy labels
\* Strings that the code indexes or searches are sequences of characters.
CooperateC == <<"C", "o", "o", "p", "e", "r", "a", "t", "e", " ", "(", "C", ")">>
DefectD == <<"D", "e", "f", "e", "c", "t", " ", "(", "D", ")">>
QuantumQ == <<"Q", "u", "a", "n", "t", "u", "m", " ", "(", "Q", ")">>
Cooperate == <<"C", "o", "o", "p", "e", "r", "a", "t", "e">>
Defect == <<"D", "e", "f", "e", "c", "t">>
Quantum == <<"Q", "u", "a", "n", "t", "u", "m">>
LabelC == <<"C">>
LabelD == <<"D">>
LabelQ == <<"Q">>
LabelLower == <<"d", "e", "f", "e", "c", "t">>

\* The options of the dashboard's two select boxes (app.py:77-78).
SelectOptions == <<CooperateC, DefectD, QuantumQ>>
\* The labels the batch script iterates over (quantum_sim.py:114).
strategies == <<LabelC, LabelD, LabelQ>>
\* Labels given to the functions when they are called directly: the labels
\* of both modules and one that neither module knows.
Labels ==
    {CooperateC, DefectD, QuantumQ, Defect, Quantum, LabelC, LabelD, LabelQ,
     LabelLower}

\* Python's `needle in label` for strings.
Contains(needle, label) ==
    \E k \in 0..(Len(label) - Len(needle)) :
        \A j \in 1..Len(needle) : label[k + j] = needle[j]

\* Mutant of app_get_strategy_operator: Defect and Quantum give each other's
\* operator.
app_get_strategy_operator_mixed(label) ==
    IF Contains(Cooperate, label) THEN Operator(I, 1)
    ELSE IF Contains(Defect, label) THEN Operator(Q, 1)
    ELSE IF Contains(Quantum, label) THEN Operator(D, 1)
    ELSE Operator(I, 1)

\* Mutant of app_get_strategy_operator: the default is Defect's operator.
app_get_strategy_operator_default_defect(label) ==
    IF Contains(Cooperate, label) THEN Operator(I, 1)
    ELSE IF Contains(Defect, label) THEN Operator(D, 1)
    ELSE IF Contains(Quantum, label) THEN Operator(Q, 1)
    ELSE Operator(D, 1)

\* app.py get_strategy_operator: substring tests, identity as the default.
app_get_strategy_operator(label) ==
    IF Contains(Cooperate, label) THEN Operator(I, 1)
    ELSE IF Contains(Defect, label) THEN Operator(D, 1)
    ELSE IF Contains(Quantum, label) THEN Operator(Q, 1)
    ELSE Operator(I, 1)

\* Mutant of qsim_get_strategy_operator: Q gives Defect's operator.
qsim_get_strategy_operator_q_as_d(label) ==
    IF label = LabelC THEN [raised |-> "", op |-> Operator(I, 1)]
    ELSE IF label = LabelD THEN [raised |-> "", op |-> Operator(D, 1)]
    ELSE IF label = LabelQ THEN [raised |-> "", op |-> Operator(D, 1)]
    ELSE [raised |-> "ValueError", op |-> Operator(<<>>, 1)]

\* quantum_sim.py get_strategy_operator: equality tests, ValueError otherwise.
\* The result is [raised, op]; raised = "" when the call returns.
qsim_get_strategy_operator(label) ==
    IF label = LabelC THEN [raised |-> "", op |-> Operator(I, 1)]
    ELSE IF label = LabelD THEN [raised |-> "", op |-> Operator(D, 1)]
    ELSE IF label = LabelQ THEN [raised |-> "", op |-> Operator(Q, 1)]
    ELSE [raised |-> "ValueError", op |-> Operator(<<>>, 1)]

\* --------------------------------------------------------------- circuit
\* One instruction of a QuantumCircuit: a unitary on qargs, a barrier, or
\* a measurement of qargs into the classical bits cargs.
Instr(name, op, qargs, cargs) ==
    [name |-> name, op |-> op, qargs |-> qargs, cargs |-> cargs]
Unitary(op, qargs) == Instr("unitary", op, qargs, <<>>)
Barrier == Instr("barrier", Operator(<<>>, 1), <<>>, <<>>)
Measure(qargs, cargs) == Instr("measure", Operator(<<>>, 1), qargs, cargs)

\* Bit q of the basis-state index k (qubit 0 is the least significant).
Bit(k, q) == (k \div (2 ^ q)) % 2

\* Row of a gate's matrix that basis state k selects on qargs: bit i of the
\* row is the bit of qubit qargs[i].
RECURSIVE Row(_, _, _)
Row(k, qargs, i) ==
    IF i > Len(qargs) THEN 0
    ELSE Bit(k, qargs[i]) * (2 ^ (i - 1)) + Row(k, qargs, i + 1)

RECURSIVE CSum(_, _)
CSum(f, S) ==
    IF S = {} THEN CZero
    ELSE LET x == CHOOSE y \in S : TRUE IN CAdd(f[x], CSum(f, S \ {x}))

\* The state vector (indexed 0..3) after a unitary on qargs.  (vec and data
\* are bound through singleton sets so that each is evaluated once.)
ApplyUnitary(vec0, op, qargs) ==
    LET others == {0, 1} \ {qargs[i] : i \in 1..Len(qargs)}
        same(k, j) == \A q \in others : Bit(k, q) = Bit(j, q)
        row == [k \in 0..3 |-> Row(k, qargs, 1) + 1]
    IN CHOOSE w \in
          {[k \in 0..3 |->
               CSum([j \in 0..3 |->
                        IF same(k, j) THEN CMul(data[rw[k]][rw[j]], vec[j])
                        ELSE CZero],
                    0..3)] : vec \in {vec0}, data \in {op.data}, rw \in {row}} : TRUE

\* The state vector the circuit's unitaries produce from |00>, not divided
\* by the operators' real factors.
RECURSIVE Statevector(_, _)
Statevector(qc, n) ==
    IF n = 0 THEN [k \in 0..3 |-> IF k = 0 THEN COne ELSE CZero]
    ELSE IF qc[n].name = "unitary"
         THEN ApplyUnitary(Statevector(qc, n - 1), qc[n].op, qc[n].qargs)
         ELSE Statevector(qc, n - 1)

\* The value classical bit c holds when basis state k is measured: the bit
\* of the qubit the last measure instruction maps to c, 0 when there is none.
RECURSIVE Clbit(_, _, _, _)
Clbit(qc, n, c, k) ==
    IF n = 0 THEN 0
    ELSE IF qc[n].name = "measure"
              /\ \E i \in 1..Len(qc[n].cargs) : qc[n].cargs[i] = c
         THEN LET i == CHOOSE x \in 1..Len(qc[n].cargs) : qc[n].cargs[x] = c
              IN Bit(k, qc[n].qargs[i])
         ELSE Clbit(qc, n - 1, c, k)

\* The key get_counts() gives basis state k: classical bit 1, then bit 0.
OutcomeOf(qc, k) ==
    <<BitChar(Clbit(qc, Len(qc), 1, k)), BitChar(Clbit(qc, Len(qc), 0, k))>>

\* The circuit's output distribution: the weight of every outcome string
\* (the probability times the product of the operators' nrm).
Distribution(qc0) ==
    CHOOSE d \in UNION
       {{[o \in Outcomes |->
             SumOver([k \in 0..3 |-> IF key[k] = o THEN CAbs2(vec[k]) ELSE 0], 0..3)] :
           vec \in {Statevector(qc, Len(qc))},
           key \in {[k \in 0..3 |-> OutcomeOf(qc, k)]}} : qc \in {qc0}} : TRUE

Support(dist) == {o \in DOMAIN dist : dist[o] > 0}

\* Every way to give n shots to the outcomes of S.
RECURSIVE Alloc(_, _)
Alloc(S, n) ==
    IF S = {} THEN (IF n = 0 THEN {[o \in {} |-> 0]} ELSE {})
    ELSE LET a == CHOOSE x \in S : TRUE
             rest == S \ {a}
         IN IF rest = {} THEN {[o \in S |-> n]}
            ELSE IF Cardinality(rest) = 1
            THEN {[o \in S |-> IF o = a THEN k ELSE n - k] : k \in 0..n}
            ELSE UNION {{[o \in S |-> IF o = a THEN k ELSE f[o]] :
                            f \in Alloc(rest, n - k)} : k \in 0..n}

\* get_counts() lists only the outcomes that occurred.
Observed(f) == [o \in {x \in DOMAIN f : f[x] > 0} |-> f[o]]

\* sim.run(transpile(qc, sim), shots=shots) followed by
\* job.result().get_counts(): every result the call can have, as
\* [raised, counts, dist], dist being the circuit's output distribution.  For shots >= 1 the counts are any split of the shots
\* over the outcomes of nonzero probability.  The simulator is not defined
\* for shots <= 0: it raises, or (shots = 0) returns the empty table; no
\* table of occurrence counts sums to a negative number.
AerRun(qc, shots) ==
    LET dist == Distribution(qc)
    IN IF shots >= 1
       THEN {[raised |-> "", counts |-> Observed(f), dist |-> dist] :
                f \in Alloc(Support(dist), shots)}
       ELSE {[raised |-> "SimulatorError", counts |-> [o \in {} |-> 0], dist |-> dist]}
            \cup (IF shots = 0
                  THEN {[raised |-> "", counts |-> [o \in {} |-> 0], dist |-> dist]}
                  ELSE {})

\* ------------------------------------------------------ running a circuit
\* The shot count of the dashboard's sweep (app.py:131-137) and the default
\* and literal shot count of the batch script (quantum_sim.py:39, 89-125).
SweepShots == 1024
DefaultShots == 4096

\* The result of a run: raised = "" when it returns counts; sampled says
\* whether sim.run was reached and with which shots.
RunResult(raised, counts, qc, sampled, shots, dist) ==
    [raised |-> raised, counts |-> counts, qc |-> qc, sampled |-> sampled,
     shots |-> shots, dist |-> dist]

\* app.py run_circuit: every result the call can have.
app_run_circuit(strat_A, strat_B, gamma, n) ==
    LET qc == <<Unitary(get_J_gate(gamma), <<0, 1>>),
                Barrier,
                Unitary(app_get_strategy_operator(strat_A), <<0>>),
                Unitary(app_get_strategy_operator(strat_B), <<1>>),
                Barrier,
                Unitary(Adjoint(get_J_gate(gamma)), <<0, 1>>),
                Measure(<<0, 1>>, <<0, 1>>)>>
    IN UNION {{RunResult(r.raised, r.counts, c, TRUE, n, r.dist) :
                  r \in AerRun(c, n)} : c \in {qc}}

\* quantum_sim.py run_ewl_circuit: every result the call can have.  An
\* unknown label raises before the simulator is created.
qsim_run_ewl_circuit(strat_A, strat_B, gamma, n) ==
    LET J == get_J_gate(gamma)
        op_A == qsim_get_strategy_operator(strat_A)
        op_B == qsim_get_strategy_operator(strat_B)
        J_dag == Adjoint(J)
        qc == <<Unitary(J, <<0, 1>>),
                Barrier,
                Unitary(op_A.op, <<0>>),
                Unitary(op_B.op, <<1>>),
                Barrier,
                Unitary(J_dag, <<0, 1>>),
                Measure(<<0, 1>>, <<0, 1>>)>>
    IN IF op_A.raised # "" \/ op_B.raised # ""
       THEN {RunResult("ValueError", [o \in {} |-> 0], <<>>, FALSE, n,
                       [o \in Outcomes |-> 0])}
       ELSE UNION {{RunResult(r.raised, r.counts, c, TRUE, n, r.dist) :
                       r \in AerRun(c, n)} : c \in {qc}}

\* ---------------------------------------------------------------- payoffs
\* app.py PAYOFFS: key -> (Alice's payoff, Bob's payoff).
app_PAYOFFS ==
    (<<"0", "0">> :> <<3, 3>>) @@ (<<"0", "1">> :> <<5, 0>>) @@
    (<<"1", "0">> :> <<0, 5>>) @@ (<<"1", "1">> :> <<1, 1>>)

\* Mutant of qsim_PAYOFFS: the payoffs of 01 and 10 exchanged.
qsim_PAYOFFS_exchanged ==
    (<<"0", "0">> :> 3) @@ (<<"0", "1">> :> 0) @@
    (<<"1", "0">> :> 5) @@ (<<"1", "1">> :> 1)

\* quantum_sim.py PAYOFFS: key -> Alice's payoff.
qsim_PAYOFFS ==
    (<<"0", "0">> :> 3) @@ (<<"0", "1">> :> 5) @@
    (<<"1", "0">> :> 0) @@ (<<"1", "1">> :> 1)

\* Mutant of app_key: the two bits swapped.
app_key_swapped(outcome) == <<outcome[2]>> \o <<outcome[1]>>

\* app.py:51, key = outcome[0] + outcome[1] (Python indexes from 0).
app_key(outcome) == <<outcome[1]>> \o <<outcome[2]>>

\* quantum_sim.py:69-72, bin_alice = outcome[1]; bin_bob = outcome[0];
\* key = bin_bob + bin_alice.
qsim_key(outcome) ==
    LET bin_alice == outcome[2]
        bin_bob == outcome[1]
    IN <<bin_bob>> \o <<bin_alice>>

\* The result of an aggregation: raised = "" when it returns value; lookups
\* are the PAYOFFS lookups made, as [outcome, key, payoff], payoff being the
\* numbers the lookup returned, in order; divided says whether the division
\* by the divisor was reached.
AggResult(raised, value, lookups, divided, divisor, counts) ==
    [raised |-> raised, value |-> value, lookups |-> lookups,
     divided |-> divided, divisor |-> divisor, counts |-> counts]

\* Mutant of app_calculate_expected_payoff: the loop runs over the four
\* keys of PAYOFFS and indexes counts with each, so an absent key raises.
app_calculate_expected_payoff_all_keys(counts, n) ==
    LET keys == DOMAIN app_PAYOFFS
        found == {o \in keys : o \in DOMAIN counts}
        lookups == {[outcome |-> o, key |-> o, payoff |-> app_PAYOFFS[o]] : o \in found}
        alice_score == SumOver([o \in found |-> app_PAYOFFS[o][1] * counts[o]], found)
        bob_score == SumOver([o \in found |-> app_PAYOFFS[o][2] * counts[o]], found)
    IN IF found # keys
       THEN AggResult("KeyError", None, lookups, FALSE, n, counts)
       ELSE IF n = 0
       THEN AggResult("ZeroDivisionError", None, lookups, TRUE, n, counts)
       ELSE AggResult("", Some(<<TrueDiv(alice_score, n), TrueDiv(bob_score, n)>>),
                      lookups, TRUE, n, counts)

\* app.py calculate_expected_payoff(counts, shots).
app_calculate_expected_payoff(counts, n) ==
    LET items == DOMAIN counts
        found == {o \in items : app_key(o) \in DOMAIN app_PAYOFFS}
        lookups == {[outcome |-> o, key |-> app_key(o),
                     payoff |-> app_PAYOFFS[app_key(o)]] : o \in found}
        alice_score == SumOver([o \in found |-> app_PAYOFFS[app_key(o)][1] * counts[o]],
                               found)
        bob_score == SumOver([o \in found |-> app_PAYOFFS[app_key(o)][2] * counts[o]],
                             found)
    IN IF found # items
       THEN AggResult("KeyError", None, lookups, FALSE, n, counts)
       ELSE IF n = 0
       THEN AggResult("ZeroDivisionError", None, lookups, TRUE, n, counts)
       ELSE AggResult("", Some(<<TrueDiv(alice_score, n), TrueDiv(bob_score, n)>>),
                      lookups, TRUE, n, counts)

\* quantum_sim.py get_expected_payoff(counts, shots).
qsim_get_expected_payoff(counts, n) ==
    LET items == DOMAIN counts
        found == {o \in items : qsim_key(o) \in DOMAIN qsim_PAYOFFS}
        lookups == {[outcome |-> o, key |-> qsim_key(o),
                     payoff |-> <<qsim_PAYOFFS[qsim_key(o)]>>] : o \in found}
        total_score == SumOver([o \in found |-> qsim_PAYOFFS[qsim_key(o)] * counts[o]],
                               found)
    IN IF found # items
       THEN AggResult("KeyError", None, lookups, FALSE, n, counts)
       ELSE IF n = 0
       THEN AggResult("ZeroDivisionError", None, lookups, TRUE, n, counts)
       ELSE AggResult("", Some(TrueDiv(total_score, n)), lookups, TRUE, n, counts)

\* ------------------------------------------------------------ the state
VARIABLES
    front,        \* what the behaviour exercises: the dashboard's Simulation
                  \* tab, its Visual tab, the batch script, or direct calls
    gamma_input,  \* the dashboard's slider
    strat_alice,  \* the dashboard's select boxes
    strat_bob,
    shots,        \* the dashboard's number input
    session,      \* st.session_state: counts, qc, payoffs
    reruns,       \* the Simulation tab's script runs since the session began
    last_ok,      \* history: c, q, (p_a, p_b) of the latest run that began
                  \* to store its results
    pc,           \* position of the Run handler, of the sweep handler or of
                  \* the batch script
    idx,          \* loop index of the sweep or of the batch script
    run,          \* the circuit run of the current script run or call, if any
    agg           \* the payoff aggregation that followed it, if any

vars == <<front, gamma_input, strat_alice, strat_bob, shots, session, reruns,
          last_ok, pc, idx, run, agg>>

\* A call of a function: its name, its arguments and its result.
Call(fn, args, res) == [fn |-> fn, args |-> args, res |-> res]

\* --------------------------------------------------------------- inputs
\* The gamma values explored, as half-angle pairs in lowest terms, from
\* gamma = 0 (<<1, 0>>) to gamma = pi/2 (<<1, 1>>).
Gammas == {g \in (1..MaxAmp) \X (0..MaxAmp) : g[2] <= g[1] /\ Gcd(g[1], g[2]) = 1}
\* The slider ends at 1.57, below pi/2 (app.py:71-75).
SliderGammas == {g \in Gammas : g[2] < g[1]}
GammaLess(g, h) == g[2] * h[1] < h[2] * g[1]

\* np.linspace over the explored values: in increasing order.
RECURSIVE Ascending(_)
Ascending(S) ==
    IF S = {} THEN <<>>
    ELSE LET m == CHOOSE g \in S : \A h \in S \ {g} : GammaLess(g, h)
         IN <<m>> \o Ascending(S \ {m})

\* gammas = np.linspace(0, 1.57, 20) and gammas = np.linspace(0, np.pi/2, 25)
app_gammas == Ascending(SliderGammas)
qsim_gammas == Ascending(Gammas)
\* gamma_max = np.pi/2
gamma_max == <<1, 1>>

\* The number input takes any integer (app.py:79 sets no minimum).
ShotInputs == (-1)..MaxShots
\* Count tables given to the aggregation functions when called directly.
CountTables == UNION {[S -> 0..MaxShots] : S \in SUBSET Outcomes}

\* ----------------------------------------------------------------- Init
SessionInit ==
    [counts |-> None, qc |-> None, payoffs |-> <<<<0, 1>>, <<0, 1>>>>]

\* The dashboard starts with gamma 0.0 and Defect against Defect.  The shot
\* count is the value the number input holds when the behaviour starts, any
\* of ShotInputs (its default, 4096, lies outside the explored range).  The
\* widgets matter on the Simulation tab only.
Init ==
    /\ front \in {"simulation", "visual", "batch", "call"}
    /\ gamma_input = <<1, 0>>
    /\ strat_alice = SelectOptions[2]
    /\ strat_bob = SelectOptions[2]
    /\ shots \in ShotInputs
    /\ (front # "simulation" => shots = MaxShots)
    /\ session = SessionInit
    /\ reruns = 0
    /\ last_ok = None
    /\ pc = IF front = "batch" THEN "exp1_dd" ELSE "idle"
    /\ idx = IF front = "batch" THEN 1 ELSE 0
    /\ run = None
    /\ agg = None

\* ------------------------------------------- dashboard, Simulation tab
\* An interaction is a rerun request.  Streamlit hands it to the running
\* script at the script's next access to st.session_state or next st.*
\* call: the script run ends there, before the access is made, and the
\* next script run starts.  The request is accepted at any position of the
\* Run handler for that reason.
\* A widget change reruns the script with the button not pressed.
SetGamma ==
    /\ front = "simulation" /\ reruns < MaxReruns
    /\ reruns' = reruns + 1
    /\ \E g \in SliderGammas : g # gamma_input /\ gamma_input' = g
    /\ run' = None /\ agg' = None /\ pc' = "idle"
    /\ UNCHANGED <<front, strat_alice, strat_bob, shots, session, last_ok, idx>>

SetAlice ==
    /\ front = "simulation" /\ reruns < MaxReruns
    /\ reruns' = reruns + 1
    /\ \E i \in 1..Len(SelectOptions) :
          SelectOptions[i] # strat_alice /\ strat_alice' = SelectOptions[i]
    /\ run' = None /\ agg' = None /\ pc' = "idle"
    /\ UNCHANGED <<front, gamma_input, strat_bob, shots, session, last_ok, idx>>

SetBob ==
    /\ front = "simulation" /\ reruns < MaxReruns
    /\ reruns' = reruns + 1
    /\ \E i \in 1..Len(SelectOptions) :
          SelectOptions[i] # strat_bob /\ strat_bob' = SelectOptions[i]
    /\ run' = None /\ agg' = None /\ pc' = "idle"
    /\ UNCHANGED <<front, gamma_input, strat_alice, shots, session, last_ok, idx>>

SetShots ==
    /\ front = "simulation" /\ reruns < MaxReruns
    /\ reruns' = reruns + 1
    /\ \E n \in ShotInputs : n # shots /\ shots' = n
    /\ run' = None /\ agg' = None /\ pc' = "idle"
    /\ UNCHANGED <<front, gamma_input, strat_alice, strat_bob, session, last_ok, idx>>

\* The aggregation that follows a run, when the run returned.
app_then(r, n) ==
    IF r.raised = "" THEN Some(Call("calculate_expected_payoff", <<r.counts, n>>,
                                    app_calculate_expected_payoff(r.counts, n)))
    ELSE None

\* app.py:89-92, the click on "Run Simulation": run_circuit, then
\* calculate_expected_payoff.  An exception ends the script run; otherwise
\* the handler stands before the first of its three assignments.
RunSimulation ==
    /\ front = "simulation" /\ reruns < MaxReruns
    /\ reruns' = reruns + 1
    /\ \E r \in app_run_circuit(strat_alice, strat_bob, gamma_input, shots) :
          LET a == app_then(r, shots)
              ok == r.raised = "" /\ a[1].res.raised = ""
          IN /\ run' = Some(Call("run_circuit",
                                 <<strat_alice, strat_bob, gamma_input, shots>>, r))
             /\ agg' = a
             /\ pc' = IF ok THEN "store_counts" ELSE "idle"
    /\ UNCHANGED <<front, gamma_input, strat_alice, strat_bob, shots, session,
                   last_ok, idx>>

\* app.py:93, st.session_state['counts'] = c
StoreCounts ==
    /\ front = "simulation" /\ pc = "store_counts"
    /\ session' = [session EXCEPT !.counts = Some(run[1].res.counts)]
    /\ last_ok' = Some([counts |-> run[1].res.counts, qc |-> run[1].res.qc,
                        payoffs |-> agg[1].res.value[1]])
    /\ pc' = "store_qc"
    /\ UNCHANGED <<front, gamma_input, strat_alice, strat_bob, shots, reruns,
                   idx, run, agg>>

\* app.py:94, st.session_state['qc'] = q
StoreQc ==
    /\ front = "simulation" /\ pc = "store_qc"
    /\ session' = [session EXCEPT !.qc = Some(run[1].res.qc)]
    /\ pc' = "store_payoffs"
    /\ UNCHANGED <<front, gamma_input, strat_alice, strat_bob, shots, reruns, last_ok,
                   idx, run, agg>>

\* app.py:95, st.session_state['payoffs'] = (p_a, p_b); the handler is done.
StorePayoffs ==
    /\ front = "simulation" /\ pc = "store_payoffs"
    /\ session' = [session EXCEPT !.payoffs = agg[1].res.value[1]]
    /\ pc' = "idle"
    /\ UNCHANGED <<front, gamma_input, strat_alice, strat_bob, shots, reruns, last_ok,
                   idx, run, agg>>

\* ------------------------------------------------ dashboard, Visual tab
\* Mutant of app_sweep_payoff: the batch script's divisor.
app_sweep_payoff_4096(c) == app_calculate_expected_payoff(c, DefaultShots)

\* app.py:131-132 and 136-137: the aggregation of a sweep run's counts.
app_sweep_payoff(c) == app_calculate_expected_payoff(c, SweepShots)

\* One run of the sweep's loop body and its aggregation.
SweepStep(strat_A, strat_B, nextpc, nextidx) ==
    \E r \in app_run_circuit(strat_A, strat_B, app_gammas[idx], SweepShots) :
       LET a == app_sweep_payoff(r.counts)
           ok == r.raised = "" /\ a.raised = ""
       IN /\ run' = Some(Call("run_circuit",
                              <<strat_A, strat_B, app_gammas[idx], SweepShots>>, r))
          /\ agg' = IF r.raised = ""
                    THEN Some(Call("calculate_expected_payoff",
                                   <<r.counts, a.divisor>>, a))
                    ELSE None
          /\ pc' = IF ok THEN nextpc ELSE "idle"
          /\ idx' = IF ok THEN nextidx ELSE 0

\* The click on "Generate Entanglement Plot" (app.py:122-129).
GenerateEntanglementPlot ==
    /\ front = "visual" /\ pc = "idle"
    /\ pc' = IF Len(app_gammas) > 0 THEN "sweep_dd" ELSE "idle"
    /\ idx' = IF Len(app_gammas) > 0 THEN 1 ELSE 0
    /\ run' = None /\ agg' = None
    /\ UNCHANGED <<front, gamma_input, strat_alice, strat_bob, shots, session,
                   reruns, last_ok>>

\* app.py:131-133, D vs D at gammas[idx].
SweepClassical ==
    /\ front = "visual" /\ pc = "sweep_dd"
    /\ SweepStep(Defect, Defect, "sweep_qd", idx)
    /\ UNCHANGED <<front, gamma_input, strat_alice, strat_bob, shots, session,
                   reruns, last_ok>>

\* app.py:136-139, Q vs D at gammas[idx]; then the next gamma or the plot.
SweepQuantum ==
    /\ front = "visual" /\ pc = "sweep_qd"
    /\ IF idx < Len(app_gammas)
       THEN SweepStep(Quantum, Defect, "sweep_dd", idx + 1)
       ELSE SweepStep(Quantum, Defect, "idle", 0)
    /\ UNCHANGED <<front, gamma_input, strat_alice, strat_bob, shots, session,
                   reruns, last_ok>>

\* app.py:128 and 139, st.progress(0) and bar.progress(...): a rerun request
\* handed over there ends the sweep at the start of a loop round.
SweepStopped ==
    /\ front = "visual" /\ pc = "sweep_dd"
    /\ pc' = "idle" /\ idx' = 0
    /\ run' = None /\ agg' = None
    /\ UNCHANGED <<front, gamma_input, strat_alice, strat_bob, shots, session,
                   reruns, last_ok>>

\* ---------------------------------------------------------- batch script
\* quantum_sim.py:88-92 and 124: run_ewl_circuit with its default shots.
qsim_run_default(strat_A, strat_B, gamma) ==
    qsim_run_ewl_circuit(strat_A, strat_B, gamma, DefaultShots)
\* quantum_sim.py:89, 92 and 125: get_expected_payoff(counts, 4096).
qsim_payoff_4096(c) == qsim_get_expected_payoff(c, DefaultShots)

\* One run of a batch loop body and its aggregation; an exception ends the
\* script.
BatchStep(strat_A, strat_B, gamma, nextpc, nextidx) ==
    \E r \in qsim_run_default(strat_A, strat_B, gamma) :
       LET a == qsim_payoff_4096(r.counts)
           ok == r.raised = "" /\ a.raised = ""
       IN /\ run' = Some(Call("run_ewl_circuit",
                              <<strat_A, strat_B, gamma, r.shots>>, r))
          /\ agg' = IF r.raised = ""
                    THEN Some(Call("get_expected_payoff", <<r.counts, a.divisor>>, a))
                    ELSE None
          /\ pc' = IF ok THEN nextpc ELSE "failed"
          /\ idx' = IF ok THEN nextidx ELSE idx

\* experiment_1_entanglement_sweep, quantum_sim.py:88-89.
Experiment1Classical ==
    /\ front = "batch" /\ pc = "exp1_dd"
    /\ BatchStep(LabelD, LabelD, qsim_gammas[idx], "exp1_qd", idx)
    /\ UNCHANGED <<front, gamma_input, strat_alice, strat_bob, shots, session,
                   reruns, last_ok>>

\* quantum_sim.py:91-92; after the last gamma the plot is saved and
\* experiment_2_equilibrium_check starts.
Experiment1Quantum ==
    /\ front = "batch" /\ pc = "exp1_qd"
    /\ IF idx < Len(qsim_gammas)
       THEN BatchStep(LabelQ, LabelD, qsim_gammas[idx], "exp1_dd", idx + 1)
       ELSE BatchStep(LabelQ, LabelD, qsim_gammas[idx], "exp2", 1)
    /\ UNCHANGED <<front, gamma_input, strat_alice, strat_bob, shots, session,
                   reruns, last_ok>>

\* experiment_2_equilibrium_check, quantum_sim.py:121-127: cell idx of the
\* table, rows sA and columns sB in the order of strategies.
Experiment2Cell ==
    /\ front = "batch" /\ pc = "exp2"
    /\ LET n == Len(strategies)
           sA == strategies[((idx - 1) \div n) + 1]
           sB == strategies[((idx - 1) % n) + 1]
       IN IF idx < n * n
          THEN BatchStep(sA, sB, gamma_max, "exp2", idx + 1)
          ELSE BatchStep(sA, sB, gamma_max, "done", idx)
    /\ UNCHANGED <<front, gamma_input, strat_alice, strat_bob, shots, session,
                   reruns, last_ok>>

\* ---------------------------------------------------------- direct calls
\* One call of a function of either module, on inputs from the bounded sets.
CallRunCircuit ==
    /\ front = "call" /\ pc = "idle"
    /\ \E sA \in Labels, sB \in Labels, g \in Gammas, n \in ShotInputs :
          \E r \in app_run_circuit(sA, sB, g, n) :
             run' = Some(Call("run_circuit", <<sA, sB, g, n>>, r))
    /\ agg' = None
    /\ pc' = "returned"
    /\ UNCHANGED <<front, gamma_input, strat_alice, strat_bob, shots, session,
                   reruns, last_ok, idx>>

CallRunEwlCircuit ==
    /\ front = "call" /\ pc = "idle"
    /\ \E sA \in Labels, sB \in Labels, g \in Gammas, n \in ShotInputs :
          \E r \in qsim_run_ewl_circuit(sA, sB, g, n) :
             run' = Some(Call("run_ewl_circuit", <<sA, sB, g, n>>, r))
    /\ agg' = None
    /\ pc' = "returned"
    /\ UNCHANGED <<front, gamma_input, strat_alice, strat_bob, shots, session,
                   reruns, last_ok, idx>>

CallCalculateExpectedPayoff ==
    /\ front = "call" /\ pc = "idle"
    /\ \E c \in CountTables, n \in ShotInputs :
          agg' = Some(Call("calculate_expected_payoff", <<c, n>>,
                           app_calculate_expected_payoff(c, n)))
    /\ run' = None
    /\ pc' = "returned"
    /\ UNCHANGED <<front, gamma_input, strat_alice, strat_bob, shots, session,
                   reruns, last_ok, idx>>

CallGetExpectedPayoff ==
    /\ front = "call" /\ pc = "idle"
    /\ \E c \in CountTables, n \in ShotInputs :
          agg' = Some(Call("get_expected_payoff", <<c, n>>,
                           qsim_get_expected_payoff(c, n)))
    /\ run' = None
    /\ pc' = "returned"
    /\ UNCHANGED <<front, gamma_input, strat_alice, strat_bob, shots, session,
                   reruns, last_ok, idx>>

\* ------------------------------------------------------------------ Spec
Next ==
    \/ SetGamma
    \/ SetAlice
    \/ SetBob
    \/ SetShots
    \/ RunSimulation
    \/ StoreCounts
    \/ StoreQc
    \/ StorePayoffs
    \/ GenerateEntanglementPlot
    \/ SweepClassical
    \/ SweepQuantum
    \/ SweepStopped
    \/ Experiment1Classical
    \/ Experiment1Quantum
    \/ Experiment2Cell
    \/ CallRunCircuit
    \/ CallRunEwlCircuit
    \/ CallCalculateExpectedPayoff
    \/ CallGetExpectedPayoff

Spec == Init /\ [][Next]_vars

\* ================================================================ claims
\* Names used by the properties below.
K00 == <<"0", "0">>
K01 == <<"0", "1">>
K10 == <<"1", "0">>
K11 == <<"1", "1">>
\* The call recorded in run / agg, when there is one.
TheRun == run[1]
TheAgg == agg[1]
\* A run that returned counts for a positive shot count.
Returned == run # None /\ TheRun.res.raised = "" /\ TheRun.res.shots > 0
\* The value the module of the recorded run gives for counts c and shots n,
\* as the numbers it returns, in order (a pair for the dashboard, one number
\* for the batch script).
PayoffOf(fn, c, n) ==
    IF fn \in {"run_circuit", "calculate_expected_payoff"}
    THEN LET a == app_calculate_expected_payoff(c, n)
         IN [raised |-> a.raised, value |-> IF a.value = None THEN <<>> ELSE a.value[1]]
    ELSE LET a == qsim_get_expected_payoff(c, n)
         IN [raised |-> a.raised, value |-> IF a.value = None THEN <<>> ELSE <<a.value[1]>>]
\* The numbers of the recorded aggregation's value, in order.
AggValue ==
    IF TheAgg.res.value = None THEN <<>>
    ELSE IF TheAgg.fn = "calculate_expected_payoff" THEN TheAgg.res.value[1]
    ELSE <<TheAgg.res.value[1]>>
\* (x, x) for the dashboard and x for the batch script, as exact fractions.
Both(fn, x) ==
    IF fn \in {"run_circuit", "calculate_expected_payoff"}
    THEN <<<<x, 1>>, <<x, 1>>>> ELSE <<<<x, 1>>>>

\* ---------------------------------------------------------------------
\* C1 (as stated): in every payoff aggregation the key used to index the
\* payoff table is the outcome string with its two bits swapped.
C1_KeyIsSwapped ==
    agg # None =>
        \A l \in TheAgg.res.lookups : l.key = <<l.outcome[2], l.outcome[1]>>

\* C1 (amended): in every payoff aggregation of either module the key used
\* to index the payoff table is the outcome string itself, its bits kept in
\* the backend's order (qubit-1 bit = Bob's, then qubit-0 bit = Alice's);
\* no swap is made.
C1_KeyIsOutcome ==
    agg # None =>
        \A l \in TheAgg.res.lookups :
            /\ l.key = l.outcome
            /\ run # None /\ TheRun.res.raised = "" =>
                  \E k \in 0..3 :
                     /\ OutcomeOf(TheRun.res.qc, k) = l.outcome
                     /\ l.key = <<BitChar(Bit(k, 1)), BitChar(Bit(k, 0))>>

\* C1 witness: a driver aggregated an outcome whose two bits differ.
C1_Witness ==
    /\ run # None /\ agg # None
    /\ \E l \in TheAgg.res.lookups : l.outcome[1] # l.outcome[2]

\* ---------------------------------------------------------------------
\* Both labels select the Quantum strategy in the module of fn.
C2_QuantumPlayers(fn, sA, sB) ==
    IF fn = "run_circuit" THEN {sA, sB} \subseteq {QuantumQ, Quantum}
    ELSE sA = LabelQ /\ sB = LabelQ

\* C2: at gamma = pi/2 with both players on the Quantum strategy every shot
\* gives outcome 00, so for any positive shot count the expected payoff is
\* (3, 3) in the dashboard and 3 (Alice's) in the batch script.
C2_QuantumCooperation ==
    (/\ Returned
     /\ TheRun.args[3] = gamma_max
     /\ C2_QuantumPlayers(TheRun.fn, TheRun.args[1], TheRun.args[2]))
    => /\ Support(TheRun.res.dist) = {K00}
       /\ TheRun.res.counts = (K00 :> TheRun.res.shots)
       /\ PayoffOf(TheRun.fn, TheRun.res.counts, TheRun.res.shots)
             = [raised |-> "", value |-> Both(TheRun.fn, 3)]
       /\ agg # None => AggValue = Both(TheRun.fn, 3)

\* C2 witness: the batch script's equilibrium table reached the cell Q vs Q.
C2_Witness ==
    /\ front = "batch" /\ pc = "done" /\ Returned /\ agg # None
    /\ TheRun.args = <<LabelQ, LabelQ, gamma_max, DefaultShots>>
    /\ AggValue = <<<<3, 1>>>>

\* ---------------------------------------------------------------------
\* Both labels select Defect in the module of fn.
C3_DefectPlayers(fn, sA, sB) ==
    IF fn = "run_circuit" THEN {sA, sB} \subseteq {DefectD, Defect}
    ELSE sA = LabelD /\ sB = LabelD

\* C3: at gamma = 0 with both players on Defect every shot gives outcome
\* 11: for every positive shot count the counts table has the single key 11
\* holding all shots and the expected payoff is (1, 1) (1 in the batch
\* script).
C3_ClassicalDefection ==
    (/\ Returned
     /\ TheRun.args[3] = <<1, 0>>
     /\ C3_DefectPlayers(TheRun.fn, TheRun.args[1], TheRun.args[2]))
    => /\ DOMAIN TheRun.res.counts = {K11}
       /\ TheRun.res.counts[K11] = TheRun.res.shots
       /\ PayoffOf(TheRun.fn, TheRun.res.counts, TheRun.res.shots)
             = [raised |-> "", value |-> Both(TheRun.fn, 1)]
       /\ agg # None => AggValue = Both(TheRun.fn, 1)

\* C3 witness: the dashboard ran Defect against Defect at gamma = 0 with
\* more than one shot and stored the result.
C3_Witness ==
    /\ front = "simulation" /\ Returned /\ agg # None
    /\ TheRun.args[1] = DefectD /\ TheRun.args[2] = DefectD
    /\ TheRun.args[3] = <<1, 0>> /\ TheRun.res.shots > 1
    /\ session.payoffs = <<<<1, 1>>, <<1, 1>>>>

\* ---------------------------------------------------------------------
\* C4 (as stated): a shot count <= 0 is rejected before execution: the
\* simulator call and the division of the aggregation are not reached.
C4_NonPositiveShotsRejected ==
    run # None /\ TheRun.args[4] <= 0 =>
        /\ ~TheRun.res.sampled
        /\ agg = None \/ ~TheAgg.res.divided

\* ---------------------------------------------------------------------
\* The label is none of those the module of fn recognises.
C5_Unknown(fn, label) ==
    IF fn = "run_circuit"
    THEN label \notin {CooperateC, DefectD, QuantumQ, Defect, Quantum}
    ELSE label \notin {LabelC, LabelD, LabelQ}
\* The label, or Cooperate (C) in place of one the dashboard does not know.
C5_AsCooperate(label) ==
    IF C5_Unknown("run_circuit", label) THEN CooperateC ELSE label

\* C5: with a label that neither module recognises, the batch script's run
\* raises ValueError before the simulator is reached and produces no
\* counts; the dashboard's run completes exactly as the run in which that
\* player chooses Cooperate: same circuit, same output distribution, and
\* counts (hence payoffs) that the Cooperate run can produce.
C5_UnknownLabel ==
    (/\ run # None
     /\ \/ C5_Unknown(TheRun.fn, TheRun.args[1])
        \/ C5_Unknown(TheRun.fn, TheRun.args[2]))
    => IF TheRun.fn = "run_ewl_circuit"
       THEN /\ TheRun.res.raised = "ValueError"
            /\ ~TheRun.res.sampled
            /\ DOMAIN TheRun.res.counts = {}
       ELSE /\ TheRun.res.sampled
            /\ TheRun.res \in app_run_circuit(C5_AsCooperate(TheRun.args[1]),
                                              C5_AsCooperate(TheRun.args[2]),
                                              TheRun.args[3], TheRun.args[4])

\* C5 witness: the dashboard's run_circuit was given the batch label D for
\* Alice and Defect (D) for Bob, and returned counts.
C5_Witness ==
    /\ Returned /\ TheRun.fn = "run_circuit"
    /\ TheRun.args[1] = LabelD /\ TheRun.args[2] = DefectD
    /\ TheRun.args[3] = gamma_max
    /\ TheRun.res.counts = (K10 :> TheRun.res.shots)

\* ---------------------------------------------------------------------
\* C6: in every payoff aggregation a driver performs (dashboard run,
\* dashboard sweep, batch sweep, batch table) the divisor is the shot count
\* that was passed to the sampler call that produced the aggregated counts,
\* and those counts sum to that shot count.
C6_DivisorIsSampledShots ==
    (front # "call" /\ agg # None)
    => /\ run # None /\ TheRun.res.sampled
       /\ TheAgg.res.counts = TheRun.res.counts
       /\ TheAgg.res.divisor = TheRun.res.shots
       /\ Total(TheAgg.res.counts) = TheAgg.res.divisor

\* C6 witness: the dashboard's sweep aggregated a run in which both
\* outcomes occurred.
C6_Witness ==
    /\ front = "visual" /\ agg # None /\ TheAgg.res.divided
    /\ Cardinality(DOMAIN TheAgg.res.counts) = 2

\* ---------------------------------------------------------------------
\* The table c with every absent outcome added with count 0.
C7_ZeroFilled(c) == [o \in Outcomes |-> IF o \in DOMAIN c THEN c[o] ELSE 0]

\* C7: an outcome absent from the counts table counts as zero occurrences:
\* for any table over a subset of the four outcomes and any positive shots
\* the aggregation returns, and returns what it returns for the same table
\* with every absent outcome added with count 0.
C7_AbsentKeyIsZero ==
    (agg # None /\ TheAgg.args[2] > 0 /\ DOMAIN TheAgg.args[1] \subseteq Outcomes)
    => /\ TheAgg.res.raised = ""
       /\ AggValue = PayoffOf(TheAgg.fn, C7_ZeroFilled(TheAgg.args[1]),
                              TheAgg.args[2]).value

\* C7 witness: an aggregation of a table that lacks some outcome and has a
\* nonzero count, with positive shots.
C7_Witness ==
    /\ agg # None /\ TheAgg.args[2] > 0
    /\ DOMAIN TheAgg.args[1] = {K01, K11}
    /\ TheAgg.args[1][K01] > 0
    /\ TheAgg.res.raised = ""

\* ---------------------------------------------------------------------
\* The classical matrix of the claim.
C8_Classical ==
    (K00 :> <<3, 3>>) @@ (K01 :> <<5, 0>>) @@ (K10 :> <<0, 5>>) @@ (K11 :> <<1, 1>>)

\* C8 (as stated): in both modules every payoff lookup returns the pair of
\* the classical matrix.
C8_PairInBothModules ==
    agg # None =>
        \A l \in TheAgg.res.lookups : l.payoff = C8_Classical[l.key]

\* C8 (amended): every payoff lookup of the dashboard returns the pair of the
\* classical matrix, 00 -> (3,3), 01 -> (5,0), 10 -> (0,5), 11 -> (1,1); every
\* payoff lookup of the batch script returns only the first number of that
\* pair (Alice's payoff), 00 -> 3, 01 -> 5, 10 -> 0, 11 -> 1.
C8_PairOrAlicePayoff ==
    agg # None =>
        \A l \in TheAgg.res.lookups :
            IF TheAgg.fn = "calculate_expected_payoff"
            THEN l.payoff = C8_Classical[l.key]
            ELSE l.payoff = <<C8_Classical[l.key][1]>>

\* C8 witness: the batch script's aggregation looked up all four keys.
C8_Witness ==
    /\ agg # None /\ TheAgg.fn = "get_expected_payoff"
    /\ {l.key : l \in TheAgg.res.lookups} = Outcomes

\* ---------------------------------------------------------------------
\* Both labels select Cooperate in the module of fn.
C9_CooperatePlayers(fn, sA, sB) ==
    IF fn = "run_circuit" THEN sA = CooperateC /\ sB = CooperateC
    ELSE sA = LabelC /\ sB = LabelC
\* The output distribution of the same call at gamma = 0.
C9_AtZero(fn, sA, sB) ==
    LET rs == IF fn = "run_circuit" THEN app_run_circuit(sA, sB, <<1, 0>>, 1)
              ELSE qsim_run_ewl_circuit(sA, sB, <<1, 0>>, 1)
    IN (CHOOSE r \in rs : TRUE).dist

\* C9: with both players on Cooperate, for every gamma the output
\* distribution is the gamma = 0 distribution, all probability on 00.
C9_EntangleThenDisentangle ==
    (/\ run # None /\ TheRun.res.sampled
     /\ C9_CooperatePlayers(TheRun.fn, TheRun.args[1], TheRun.args[2]))
    => LET d == TheRun.res.dist
           z == C9_AtZero(TheRun.fn, TheRun.args[1], TheRun.args[2])
       IN /\ Support(d) = {K00}
          /\ \A o \in Outcomes : d[o] * Total(z) = z[o] * Total(d)
          /\ TheRun.res.shots > 0 /\ TheRun.res.raised = "" =>
                TheRun.res.counts = (K00 :> TheRun.res.shots)

\* C9 witness: Cooperate against Cooperate ran at a gamma other than 0.
C9_Witness ==
    /\ Returned /\ TheRun.fn = "run_ewl_circuit"
    /\ TheRun.args[1] = LabelC /\ TheRun.args[2] = LabelC
    /\ TheRun.args[3] = <<2, 1>>
    /\ TheRun.res.counts = (K00 :> TheRun.res.shots)

\* ---------------------------------------------------------------------
\* C10: whenever no Run handler is under way, the session's counts, circuit
\* and payoffs are either all at their initial values or all three those of
\* one run, the latest that stored a result: a run replaces the three
\* together, and a run that raises leaves them as they were.
C10_SessionIsLatestRun ==
    (front = "simulation" /\ pc = "idle") =>
        IF last_ok = None THEN session = SessionInit
        ELSE /\ session.counts = Some(last_ok[1].counts)
             /\ session.qc = Some(last_ok[1].qc)
             /\ session.payoffs = last_ok[1].payoffs

====
